---- MODULE Spec2Model ----
(***************************************************************************)
(* Idea Index: the IdeaDetail page (frontend/src/pages/Home.js, second     *)
(* module of the file) and the Post/Comment store it talks to.             *)
(*                                                                         *)
(* Spec      the outline pipeline: fetchIdea flattens the reply tree,      *)
(*           ranks it by upvotes and getIndentLevel derives the indent.    *)
(* SpecVote  the vote toggle: handleVote of the logged-in user, votes of   *)
(*           other users, and the store's vote recording.                  *)
(***************************************************************************)
EXTENDS Integers, Sequences, FiniteSets, TLC

(* ------------------------------ bounds --------------------------------- *)

\* Largest number of posts (root plus replies) in a thread of Spec.
MaxPosts == 3

\* Largest upvote counter a post of Spec starts with.
MaxUpvotes == 2

\* Largest number of requests of one kind in flight at once.
MaxInflight == 1

\* Number of users of SpecVote; user Me is the one looking at the page.
NumUsers == 2

\* Number of posts in the thread of SpecVote.
VotePosts == 1

\* Largest number of votes cast in a behaviour of SpecVote.
MaxCasts == 3

(* ------------------------------ state ---------------------------------- *)

VARIABLES
    store,          \* server: the thread, post id -> [id, upvotes, downvotes, comments]
    votes,          \* server: the vote records [user_id, idea_id, vote_value]
    user,           \* AuthContext: <<>> (null) or <<[is_verified_email |-> ...]>>
    showAuthModal,  \* AuthContext: the login dialog is open
    mainIdea,       \* IdeaDetail: <<>> (null) or <<root post of the last response>>
    allIdeas,       \* IdeaDetail: flat list of all ideas sorted by upvotes
    userVotes,      \* IdeaDetail: the user's votes, { ideaId: 1 or -1 }
    loading,        \* IdeaDetail: spinner flag
    mounted,        \* the effect of the first render has run (IdeaDetail; App)
    inflight,       \* requests issued and not yet settled, in the order issued
    runs,           \* history: the last two completed fetchIdea runs
    casts,          \* history: per post, the last two votes the store recorded
    clicks,         \* history: per post, the last two handleVote calls of the page
    ncasts,         \* history: votes cast so far
    id,             \* IdeaDetail: useParams().id, the post the page is about
    visits,         \* history: how often id changed
    caught,         \* history: <<>> or <<what flattening threw in the last fetchIdea>>
    last,           \* history: <<>> or <<the last handleVote / handleReply call>>
    replyToId,      \* IdeaDetail: <<>> (null) or <<post whose reply form is open>>
    replyBody,      \* IdeaDetail: text of the reply form, a sequence of characters
    replyImages,    \* IdeaDetail: number of images selected for the reply
    replying,       \* IdeaDetail: a reply is being posted
    formData,       \* SubmitIdea: [title, body], sequences of characters
    submitting,     \* SubmitIdea: the idea is being posted
    location,       \* router: the route shown
    newest,         \* history: the fetchIdea issued last, [pending, data]
    token,          \* AuthContext: <<>> (null) or <<the token of the session>>
    selectedImages, \* image picker: the images selected, by file
    imagePreviews,  \* image picker: the previews shown, by the file each is of
    readers,        \* image picker: files whose FileReader has not finished
    nfiles,         \* history: files chosen so far
    selectedCategories, \* Home: ids of the categories selected, in the order selected
    cleared,        \* history: <<>> or <<the last click on a badge: [name, before, after]>>
    voting,         \* IdeaCard: a vote of the card is being posted
    cardVotes,      \* IdeaCard: [upvotes, downvotes], the counters the card shows
    currentPassword,  \* Settings: text of the current password, a sequence of characters
    newPassword,      \* Settings: text of the new password
    confirmPassword,  \* Settings: text of the confirmation
    changingPassword, \* Settings: the change is being posted
    timers,         \* NotificationCenter: the intervals set and not cleared, [id, token]
    cleanup,        \* NotificationCenter: <<>> or <<the interval the last effect clears>>
    polling,        \* unread-count requests issued and not yet settled, by their token
    polled,         \* history: <<>> or <<the last unread-count request: [by, user, token]>>
    unreadCount     \* NotificationCenter: the number on the bell

routeVars == <<id, visits, caught>>

formVars == <<replyToId, replyBody, replyImages, replying, formData, submitting, location>>

\* What the outline of IdeaDetail and the form of SubmitIdea never touch.
bellVars == <<timers, cleanup, polling, polled, unreadCount>>

appVars == <<token, bellVars>>

pickerVars == <<selectedImages, imagePreviews, readers, nfiles>>

homeVars == <<selectedCategories, cleared>>

cardVars == <<voting, cardVotes>>

settingsVars == <<currentPassword, newPassword, confirmPassword, changingPassword>>

elsewhere == <<newest, appVars, pickerVars, homeVars, cardVars, settingsVars>>

\* Each part of the program with the rest of elsewhere.
exceptNewest == <<appVars, pickerVars, homeVars, cardVars, settingsVars>>

exceptApp == <<newest, pickerVars, homeVars, cardVars, settingsVars>>

exceptPicker == <<newest, appVars, homeVars, cardVars, settingsVars>>

exceptHome == <<newest, appVars, pickerVars, cardVars, settingsVars>>

exceptCard == <<newest, appVars, pickerVars, homeVars, settingsVars>>

exceptSettings == <<newest, appVars, pickerVars, homeVars, cardVars>>

vars == <<store, votes, user, showAuthModal, mainIdea, allIdeas, userVotes, loading,
          mounted, inflight, runs, casts, clicks, ncasts, routeVars, last, formVars,
          elsewhere>>

(* ------------------------- the reply tree ------------------------------ *)

\* Children of post p under parent map par, as the comments array (by id).
RECURSIVE CommentsOf(_, _, _, _)
CommentsOf(par, p, c, n) ==
    IF c > n THEN <<>>
    ELSE (IF par[c] = p THEN <<c>> ELSE <<>>) \o CommentsOf(par, p, c + 1, n)

\* Every thread of n posts: post 1 is the root, each reply has an older parent.
Threads(n) ==
    { [p \in 1..n |-> [id |-> p, upvotes |-> up[p], downvotes |-> 0,
                       comments |-> CommentsOf(par, p, 2, n)]] :
        par \in { f \in [1..n -> 0..n] : f[1] = 0 /\ \A c \in 2..n : f[c] \in 1..(c-1) },
        up \in [1..n -> 0..MaxUpvotes] }

(* ----------------------- fetchIdea: the pipeline ----------------------- *)

\* flattenComments without the recursive call: top-level comments only.
RECURSIVE flattenComments_shallow(_, _)
flattenComments_shallow(data, comments) ==
    IF comments = <<>> THEN <<>>
    ELSE <<data[Head(comments)]>> \o flattenComments_shallow(data, Tail(comments))

\* flattenComments pushing a comment after its replies: post-order.
RECURSIVE flattenComments_postorder(_, _)
flattenComments_postorder(data, comments) ==
    IF comments = <<>> THEN <<>>
    ELSE LET comment == data[Head(comments)] IN
         (IF Len(comment.comments) > 0
          THEN flattenComments_postorder(data, comment.comments) ELSE <<>>)
         \o <<comment>>
         \o flattenComments_postorder(data, Tail(comments))

\* const flattenComments = (comments) => { ... }: depth-first, pre-order.
RECURSIVE flattenComments(_, _)
flattenComments(data, comments) ==
    IF comments = <<>> THEN <<>>
    ELSE LET comment == data[Head(comments)] IN
         <<comment>>
         \o (IF Len(comment.comments) > 0
             THEN flattenComments(data, comment.comments) ELSE <<>>)
         \o flattenComments(data, Tail(comments))

\* const allIdeasList = [data, ...allComments];
flatten(data) == <<data[1]>> \o flattenComments(data, data[1].comments)

\* Comparator on the net score, upvotes minus downvotes.
compareFn_net(a, b) == (b.upvotes - b.downvotes) - (a.upvotes - a.downvotes)

\* Comparator sorting ascending.
compareFn_ascending(a, b) == a.upvotes - b.upvotes

\* Comparator breaking ties by newest id first.
compareFn_tiebreak(a, b) ==
    IF b.upvotes # a.upvotes THEN b.upvotes - a.upvotes ELSE b.id - a.id

\* (a, b) => b.upvotes - a.upvotes
compareFn(a, b) == b.upvotes - a.upvotes

\* Insert x into the sorted list s behind every element that does not have to
\* follow it: elements that compare equal keep their order.
RECURSIVE insertSorted(_, _)
insertSorted(s, x) ==
    IF s = <<>> THEN <<x>>
    ELSE IF compareFn(s[Len(s)], x) <= 0 THEN Append(s, x)
    ELSE Append(insertSorted(SubSeq(s, 1, Len(s) - 1), x), s[Len(s)])

RECURSIVE sortFrom(_, _)
sortFrom(sorted, rest) ==
    IF rest = <<>> THEN sorted
    ELSE sortFrom(insertSorted(sorted, Head(rest)), Tail(rest))

\* The list left as it was built.
sort_skipped(list) == list

\* The root kept on top, the replies sorted below it.
sort_rootfirst(list) == <<Head(list)>> \o sortFrom(<<>>, Tail(list))

\* Array.prototype.sort with compareFn (stable, ECMAScript 2019).
sort(list) == sortFrom(<<>>, list)

\* The list built inside the root's comments array (data.comments.unshift(data)).
sortedArray_comments(data) == 1

\* The array that allIdeasList.sort reorders in place, named by the post whose
\* comments array it is. [data, ...allComments] is a new array, no part of the
\* response: 0. flattenComments pushes into its own result and concat returns
\* a new array, so no array of the response is written before the sort either.
sortedArray(data) == 0

\* The response as it is after allIdeasList.sort has run and left sorted in
\* the array it was called on.
afterSort(data, sorted) ==
    [p \in DOMAIN data |->
        [data[p] EXCEPT !.comments = IF sortedArray(data) = p
                                     THEN [i \in 1..Len(sorted) |-> sorted[i].id]
                                     ELSE @]]

\* State update that appends to the list already shown.
setAllIdeas_append(prev, allIdeasList) == prev \o allIdeasList

\* setAllIdeas(allIdeasList): the list is replaced wholesale.
setAllIdeas(prev, allIdeasList) == allIdeasList

(* --------------------------- getIndentLevel ---------------------------- *)

\* Indent grows by the size of the drop in upvotes.
RECURSIVE getIndentLevel_bydrop(_, _)
getIndentLevel_bydrop(ideas, index) ==
    IF index = 0 THEN 0
    ELSE getIndentLevel_bydrop(ideas, index - 1)
         + (ideas[index].upvotes - ideas[index + 1].upvotes)

\* Upvotes compared with the top entry instead of the previous one.
RECURSIVE getIndentLevel_vstop(_, _)
getIndentLevel_vstop(ideas, index) ==
    IF index = 0 THEN 0
    ELSE IF ideas[index + 1].upvotes = ideas[1].upvotes
         THEN getIndentLevel_vstop(ideas, index - 1)
         ELSE getIndentLevel_vstop(ideas, index - 1) + 1

\* getIndentLevel(index) over the list ideas; index is 0-based as in the code.
RECURSIVE getIndentLevel(_, _)
getIndentLevel(ideas, index) ==
    IF index = 0 THEN 0
    ELSE LET currentUpvotes  == ideas[index + 1].upvotes
             previousUpvotes == ideas[index].upvotes
         IN  IF currentUpvotes = previousUpvotes
             THEN getIndentLevel(ideas, index - 1)
             ELSE getIndentLevel(ideas, index - 1) + 1

\* The indent of every rendered row, allIdeas.map((idea, index) => getIndentLevel(index)).
IndentLevels(ideas) == [i \in 1..Len(ideas) |-> getIndentLevel(ideas, i - 1)]

(* ------------------------------ requests ------------------------------- *)

\* A request as issued. kind: GET_idea (fetchIdea), GET_thread and GET_my_votes
\* (fetchUserVotes), POST_vote (handleVote). resp is <<>> until the server answered.
Request(kind, idea, ids, vote) ==
    [kind |-> kind, idea |-> idea, ids |-> ids, vote |-> vote, resp |-> <<>>]

Pending(kind) == { i \in 1..Len(inflight) : inflight[i].kind = kind }

Without(seq, i) == SubSeq(seq, 1, i - 1) \o SubSeq(seq, i + 1, Len(seq))

Answered(i, resp) == [inflight EXCEPT ![i].resp = <<resp>>]

\* The last two entries, newest last.
Remember(log, entry) ==
    IF Len(log) < 2 THEN Append(log, entry) ELSE <<log[2], entry>>

\* The table st read from post r: r takes the place of post 1 and the
\* comments arrays follow. Every post is an idea with a page of its own.
Rooted(st, r) ==
    LET sw(k) == IF k = 1 THEN r ELSE IF k = r THEN 1 ELSE k
    IN  [k \in DOMAIN st |->
            [st[sw(k)] EXCEPT !.comments = [j \in DOMAIN @ |-> sw(@[j])]]]

\* GET /ideas/{id}: <<>> (404) or <<the post with its nested comments>>.
GetPostWithReplies(st, r) == IF r \in DOMAIN st THEN <<Rooted(st, r)>> ELSE <<>>

(* ------------------------- actions of Spec ----------------------------- *)

\* fetchIdea up to its await: setLoading(true); axios.get(`${API}/ideas/${id}`).
FetchIdeaCall ==
    /\ Cardinality(Pending("GET_idea")) < MaxInflight
    /\ loading' = TRUE
    /\ inflight' = Append(inflight, Request("GET_idea", id, <<>>, 0))
    /\ UNCHANGED <<elsewhere, routeVars, last, formVars, mounted, store, votes, user, showAuthModal, mainIdea, allIdeas, userVotes,
                   runs, casts, clicks, ncasts>>

\* The store answers GET /ideas/{id} with the thread as it is now.
ServeIdea ==
    \E i \in Pending("GET_idea") :
        /\ inflight[i].resp = <<>>
        /\ GetPostWithReplies(store, inflight[i].idea) # <<>>
        /\ inflight' = Answered(i, GetPostWithReplies(store, inflight[i].idea)[1])
        /\ UNCHANGED <<elsewhere, routeVars, last, formVars, mounted, store, votes, user, showAuthModal, mainIdea, allIdeas, userVotes,
                       loading, runs, casts, clicks, ncasts>>

\* fetchIdea after its await, request i having succeeded with response data.
\* keep: the run is entered in the history.
FetchIdeaThen(i, data, keep) ==
    /\ LET allIdeasList == flatten(data)
           ranked       == setAllIdeas(allIdeas, sort(allIdeasList))
       IN  /\ mainIdea' = <<data[1]>>
           /\ allIdeas' = ranked
           /\ runs' = IF keep
                      THEN Remember(runs, [data |-> data, flat |-> allIdeasList,
                                           after |-> afterSort(data, sort(allIdeasList)),
                                           allIdeas |-> ranked,
                                           levels |-> IndentLevels(ranked)])
                      ELSE runs
    /\ loading' = FALSE
    /\ inflight' = Without(inflight, i)
    /\ UNCHANGED <<routeVars, last, formVars, mounted, store, votes, user, showAuthModal, userVotes, casts, clicks, ncasts>>

FetchIdeaResolve ==
    \E i \in Pending("GET_idea") :
        /\ inflight[i].resp # <<>>
        /\ FetchIdeaThen(i, inflight[i].resp[1], TRUE)
        /\ UNCHANGED elsewhere

\* fetchIdea after its await, the request having failed: catch, then finally.
FetchIdeaReject ==
    \E i \in Pending("GET_idea") :
        /\ loading' = FALSE
        /\ inflight' = Without(inflight, i)
        /\ UNCHANGED <<elsewhere, routeVars, last, formVars, mounted, store, votes, user, showAuthModal, mainIdea, allIdeas, userVotes,
                       runs, casts, clicks, ncasts>>

\* What the rest of the program starts with: the route of the page, the
\* reply form of IdeaDetail and the form of SubmitIdea.
\* Everything outside IdeaDetail and SubmitIdea as it is before anything ran.
NoFetchYet == newest = [pending |-> FALSE, data |-> <<>>]

\* The token goes with the user.
InitToken == token = IF user = <<>> THEN <<>> ELSE <<1>>

\* No image picked.
NoImages ==
    /\ selectedImages = <<>>
    /\ imagePreviews = <<>>
    /\ readers = {}
    /\ nfiles = 0

\* No category selected.
NoCategories ==
    /\ selectedCategories = <<>>
    /\ cleared = <<>>

\* No card shown.
NoCard ==
    /\ voting = FALSE
    /\ cardVotes = [upvotes |-> 0, downvotes |-> 0]

\* The password form empty.
NoPasswords ==
    /\ currentPassword = <<>>
    /\ newPassword = <<>>
    /\ confirmPassword = <<>>
    /\ changingPassword = FALSE

\* The bell of a session that is already there: its first request answered
\* with no notification, its interval set; no bell without a session.
InitBell ==
    /\ polling = <<>>
    /\ unreadCount = 0
    /\ IF user # <<>> /\ token # <<>>
       THEN /\ timers = {[id |-> 1, token |-> token]}
            /\ cleanup = <<1>>
            /\ polled = <<[by |-> "effect", user |-> user, token |-> token]>>
       ELSE /\ timers = {}
            /\ cleanup = <<>>
            /\ polled = <<>>

InitRest ==
    /\ NoFetchYet
    /\ InitToken
    /\ InitBell
    /\ NoImages
    /\ NoCategories
    /\ NoCard
    /\ NoPasswords

InitElsewhere ==
    /\ id = 1
    /\ visits = 0
    /\ caught = <<>>
    /\ last = <<>>
    /\ replyToId = <<>>
    /\ replyBody = <<>>
    /\ replyImages = 0
    /\ replying = FALSE
    /\ formData = [title |-> <<>>, body |-> <<>>]
    /\ submitting = FALSE
    /\ location = "/ideas"

InitPage ==
    /\ showAuthModal = FALSE
    /\ mainIdea = <<>>
    /\ allIdeas = <<>>
    /\ userVotes = <<>>
    /\ loading = TRUE
    /\ mounted = FALSE
    /\ inflight = <<>>
    /\ runs = <<>>
    /\ clicks = <<>>
    /\ ncasts = 0
    /\ InitElsewhere

InitDetail == InitPage /\ InitRest

\* No thread loaded, nobody logged in, IdeaDetail not in use.
InitIdle ==
    /\ store = <<>>
    /\ votes = {}
    /\ user = <<>>
    /\ casts = <<>>
    /\ InitPage

Init ==
    /\ \E n \in 1..MaxPosts : store \in Threads(n)
    /\ votes = {}
    /\ user = <<>>
    /\ casts = <<>>
    /\ InitDetail

Next ==
    \/ FetchIdeaCall
    \/ ServeIdea
    \/ FetchIdeaResolve
    \/ FetchIdeaReject

Spec == Init /\ [][Next]_vars

(* --------------------- the store's vote recording ---------------------- *)

Users == 1..NumUsers

\* The user logged in on the page.
Me == 1

\* Every fresh thread of n posts: no vote recorded yet.
FreshThreads(n) == { t \in Threads(n) : \A p \in 1..n : t[p].upvotes = 0 }

\* The vote records of user u on post p.
VotesOf(vs, u, p) == { r \in vs : r.user_id = u /\ r.idea_id = p }

\* The UserVote of u on p: 1 (Upvoted), -1 (Downvoted) or 0 (NoVote, absent).
UserVote(vs, u, p) ==
    IF VotesOf(vs, u, p) = {} THEN 0
    ELSE (CHOOSE r \in VotesOf(vs, u, p) : TRUE).vote_value

\* A store that adds a record for every vote it receives.
recordVote_insert(vs, u, p, v) ==
    vs \cup {[user_id |-> u, idea_id |-> p, vote_value |-> v]}

\* A store that clears the vote whenever one exists.
recordVote_clear(vs, u, p, v) ==
    IF VotesOf(vs, u, p) = {}
    THEN vs \cup {[user_id |-> u, idea_id |-> p, vote_value |-> v]}
    ELSE vs \ VotesOf(vs, u, p)

\* RecordVote on the vote records: the same value again retracts the vote, the
\* opposite value replaces it.
recordVote(vs, u, p, v) ==
    IF VotesOf(vs, u, p) = {}
    THEN vs \cup {[user_id |-> u, idea_id |-> p, vote_value |-> v]}
    ELSE IF UserVote(vs, u, p) = v
    THEN vs \ VotesOf(vs, u, p)
    ELSE (vs \ VotesOf(vs, u, p)) \cup {[user_id |-> u, idea_id |-> p, vote_value |-> v]}

\* A store that counts the new vote and forgets to take back the old one.
countVote_addonly(post, old, new) ==
    [post EXCEPT !.upvotes   = @ + (IF new = 1 THEN 1 ELSE 0),
                 !.downvotes = @ + (IF new = -1 THEN 1 ELSE 0)]

\* RecordVote on the counters of the post, the user's vote going from old to new.
countVote(post, old, new) ==
    [post EXCEPT !.upvotes   = @ - (IF old = 1 THEN 1 ELSE 0) + (IF new = 1 THEN 1 ELSE 0),
                 !.downvotes = @ - (IF old = -1 THEN 1 ELSE 0) + (IF new = -1 THEN 1 ELSE 0)]

\* What the history keeps of user u and post p.
Seen(st, vs, u, p) ==
    [mine |-> UserVote(vs, u, p), held |-> Cardinality(VotesOf(vs, u, p)),
     upvotes |-> st[p].upvotes, downvotes |-> st[p].downvotes]

\* The vote request of another user's page on post p is in flight while the
\* store records the vote of user u.
Racing(u, p) ==
    \E i \in 1..Len(inflight) :
        inflight[i].kind = "POST_vote" /\ inflight[i].idea = p /\ u # Me

\* The entry the history keeps of a recorded vote.
Cast(u, p, v, st, vs) ==
    [user |-> u, vote |-> v, racing |-> Racing(u, p),
     before |-> Seen(store, votes, u, p), after |-> Seen(st, vs, u, p)]

\* The counters of the post as the page of user Me shows them.
Shown(p) ==
    LET at == { k \in 1..Len(allIdeas) : allIdeas[k].id = p }
    IN  IF at = {} THEN store[p] ELSE allIdeas[CHOOSE k \in at : TRUE]

\* A store that takes the counters from the voter's page and writes them back
\* changed: a read-modify-write over a stale copy.
RecordVote_stale(u, p, v) ==
    LET vs == recordVote(votes, u, p, v)
        rd == IF u = Me THEN Shown(p) ELSE store[p]
        st == [store EXCEPT ![p] = [countVote(rd, UserVote(votes, u, p), UserVote(vs, u, p))
                                        EXCEPT !.comments = store[p].comments]]
    IN  /\ votes' = vs
        /\ store' = st
        /\ casts' = [casts EXCEPT ![p] = Remember(@, Cast(u, p, v, st, vs))]

\* RecordVote(post_id, user_id, value), one atomic step of the store.
RecordVote(u, p, v) ==
    LET vs == recordVote(votes, u, p, v)
        st == [store EXCEPT ![p] = countVote(@, UserVote(votes, u, p), UserVote(vs, u, p))]
    IN  /\ votes' = vs
        /\ store' = st
        /\ casts' = [casts EXCEPT ![p] = Remember(@, Cast(u, p, v, st, vs))]

(* ----------------------------- handleVote ------------------------------ *)

\* userVotes[ideaId]; undefined is 0.
voteIn(map, ideaId) == IF ideaId \in DOMAIN map THEN map[ideaId] ELSE 0

\* A toggle that never switches off.
newVote_set(currentVote, voteValue) == voteValue

\* A toggle that clears whatever vote there is.
newVote_clear(currentVote, voteValue) == IF currentVote # 0 THEN 0 ELSE voteValue

\* const newVote = currentVote === voteValue ? 0 : voteValue;
newVote(currentVote, voteValue) == IF currentVote = voteValue THEN 0 ELSE voteValue

\* setUserVotes(prev => { ... }): delete the key on 0, set it otherwise.
updated(prev, ideaId, nv) ==
    IF nv = 0
    THEN [k \in DOMAIN prev \ {ideaId} |-> prev[k]]
    ELSE [k \in DOMAIN prev \cup {ideaId} |-> IF k = ideaId THEN nv ELSE prev[k]]

\* The vote buttons of the outline are on the page.
OutlineShown == ~loading /\ mainIdea # <<>>

\* What the history keeps of a handleVote or handleReply call: what the page
\* showed when it was called, and how its request ended.
Called(kind, ideaId) ==
    <<[kind |-> kind, idea |-> ideaId, outcome |-> "pending",
       mainIdea |-> mainIdea, allIdeas |-> allIdeas, userVotes |-> userVotes]>>

Settled(call, outcome) ==
    IF call = <<>> THEN call ELSE <<[call[1] EXCEPT !.outcome = outcome]>>

\* handleVote(ideaId, voteValue) up to its await. A vote is cast from a settled
\* page, no request of the page being in flight, and MaxCasts votes are cast
\* in all.
HandleVote ==
    \E index \in 1..Len(allIdeas), voteValue \in {1, -1} :
        LET ideaId == allIdeas[index].id IN
        /\ OutlineShown
        /\ IF user = <<>>
           THEN /\ showAuthModal' = TRUE
                /\ UNCHANGED <<elsewhere, routeVars, last, formVars, mounted, store, votes, user, mainIdea, allIdeas, userVotes, loading,
                               inflight, runs, casts, clicks, ncasts>>
           ELSE IF ~user[1].is_verified_email
           THEN UNCHANGED vars
           ELSE LET currentVote == voteIn(userVotes, ideaId)
                    nv          == newVote(currentVote, voteValue)
                IN  /\ ncasts < MaxCasts
                    /\ inflight = <<>>
                    /\ userVotes' = updated(userVotes, ideaId, nv)
                    /\ inflight' = Append(inflight, Request("POST_vote", ideaId, <<>>, voteValue))
                    /\ clicks' = [clicks EXCEPT ![ideaId] =
                                     Remember(@, [vote |-> voteValue, before |-> currentVote,
                                                  after |-> nv])]
                    /\ ncasts' = ncasts + 1
                    /\ last' = Called("vote", ideaId)
                    /\ UNCHANGED <<elsewhere, routeVars, formVars, mounted, store, votes, user, showAuthModal, mainIdea, allIdeas,
                                   loading, runs, casts>>

\* handleVote after its await: the store recorded the vote and the request
\* succeeded: fetchIdea().
VoteResolve ==
    \E i \in Pending("POST_vote") :
        /\ RecordVote(Me, inflight[i].idea, inflight[i].vote)
        /\ loading' = TRUE
        /\ inflight' = Append(Without(inflight, i), Request("GET_idea", id, <<>>, 0))
        /\ last' = Settled(last, "ok")
        /\ UNCHANGED <<elsewhere, routeVars, formVars, mounted, user, showAuthModal, mainIdea, allIdeas, userVotes,
                       runs, clicks, ncasts>>

\* fetchUserVotes up to its first await (user and token are set).
FetchUserVotesCall(requests) == Append(requests, Request("GET_thread", id, <<>>, 0))

\* handleVote after its await, the request having failed with nothing recorded:
\* toast, fetchUserVotes().
VoteReject ==
    \E i \in Pending("POST_vote") :
        /\ inflight' = FetchUserVotesCall(Without(inflight, i))
        /\ last' = Settled(last, "failed")
        /\ UNCHANGED <<elsewhere, routeVars, formVars, mounted, store, votes, user, showAuthModal, mainIdea, allIdeas, userVotes,
                       loading, runs, casts, clicks, ncasts>>

\* A vote of another user, from that user's own page, reaches the store.
OtherVote ==
    \E u \in Users \ {Me}, p \in DOMAIN store, v \in {1, -1} :
        /\ ncasts < MaxCasts
        /\ RecordVote(u, p, v)
        /\ ncasts' = ncasts + 1
        /\ UNCHANGED <<elsewhere, routeVars, last, formVars, mounted, user, showAuthModal, mainIdea, allIdeas, userVotes, loading,
                       inflight, runs, clicks>>

(* ---------------------- useEffect, fetchUserVotes ---------------------- *)

\* useEffect(() => { fetchIdea(); if (user && token) fetchUserVotes(); }, [id, user, token])
UseEffect ==
    /\ ~mounted
    /\ mounted' = TRUE
    /\ loading' = TRUE
    /\ inflight' = LET issued == Append(inflight, Request("GET_idea", id, <<>>, 0))
                   IN  IF user # <<>> THEN FetchUserVotesCall(issued) ELSE issued
    /\ UNCHANGED <<elsewhere, routeVars, last, formVars, store, votes, user, showAuthModal, mainIdea, allIdeas, userVotes,
                   runs, casts, clicks, ncasts>>

\* const allIdeaIds = [data.id, ...allComments.map(c => c.id)];
allIdeaIds(data) ==
    LET allComments == flattenComments(data, data[1].comments)
    IN  <<data[1].id>> \o [k \in 1..Len(allComments) |-> allComments[k].id]

\* fetchUserVotes between its awaits: the store answers GET /ideas/{id} with the
\* thread as it is now, and the page asks for the votes on its posts.
FetchUserVotesIds ==
    \E i \in Pending("GET_thread") :
        /\ inflight' = Append(Without(inflight, i),
                              Request("GET_my_votes", 0,
                                      allIdeaIds(GetPostWithReplies(store, inflight[i].idea)[1]),
                                      0))
        /\ UNCHANGED <<elsewhere, routeVars, last, formVars, mounted, store, votes, user, showAuthModal, mainIdea, allIdeas, userVotes,
                       loading, runs, casts, clicks, ncasts>>

\* GET /my-votes?idea_ids=...: the votes of the user on the posts ids.
myVotes(vs, u, ids) ==
    { [idea_id |-> r.idea_id, vote_value |-> r.vote_value] :
        r \in { x \in vs : x.user_id = u /\ \E k \in 1..Len(ids) : ids[k] = x.idea_id } }

\* votesResponse.data.forEach(vote => { votesMap[vote.idea_id] = vote.vote_value; });
votesMap(response) ==
    [k \in { r.idea_id : r \in response } |->
        (CHOOSE r \in response : r.idea_id = k).vote_value]

\* fetchUserVotes after its second await, the store answering with the votes as
\* they are now: setUserVotes(votesMap).
FetchUserVotesResolve ==
    \E i \in Pending("GET_my_votes") :
        /\ userVotes' = votesMap(myVotes(votes, Me, inflight[i].ids))
        /\ clicks' = [p \in DOMAIN clicks |-> <<>>]
        /\ inflight' = Without(inflight, i)
        /\ UNCHANGED <<elsewhere, routeVars, last, formVars, mounted, store, votes, user, showAuthModal, mainIdea, allIdeas, loading,
                       runs, casts, ncasts>>

\* fetchUserVotes, either request having failed: catch.
FetchUserVotesReject ==
    \E i \in Pending("GET_thread") \cup Pending("GET_my_votes") :
        /\ inflight' = Without(inflight, i)
        /\ UNCHANGED <<elsewhere, routeVars, last, formVars, mounted, store, votes, user, showAuthModal, mainIdea, allIdeas, userVotes,
                       loading, runs, casts, clicks, ncasts>>

\* fetchIdea after its await, the store answering GET /ideas/{id} with the thread
\* as it is now; no run history is kept.
FetchIdeaRefresh ==
    \E i \in Pending("GET_idea") :
        /\ GetPostWithReplies(store, inflight[i].idea) # <<>>
        /\ FetchIdeaThen(i, GetPostWithReplies(store, inflight[i].idea)[1], FALSE)
        /\ UNCHANGED elsewhere

InitVote ==
    /\ store \in FreshThreads(VotePosts)
    /\ votes = {}
    /\ user \in {<<>>, <<[is_verified_email |-> FALSE]>>, <<[is_verified_email |-> TRUE]>>}
    /\ showAuthModal = FALSE
    /\ mainIdea = <<>>
    /\ allIdeas = <<>>
    /\ userVotes = <<>>
    /\ loading = TRUE
    /\ mounted = FALSE
    /\ inflight = <<>>
    /\ runs = <<>>
    /\ casts = [p \in 1..VotePosts |-> <<>>]
    /\ clicks = [p \in 1..VotePosts |-> <<>>]
    /\ ncasts = 0
    /\ InitElsewhere
    /\ InitRest

NextVote ==
    \/ UseEffect
    \/ FetchIdeaRefresh
    \/ FetchIdeaReject
    \/ FetchUserVotesIds
    \/ FetchUserVotesResolve
    \/ FetchUserVotesReject
    \/ HandleVote
    \/ VoteResolve
    \/ VoteReject
    \/ OtherVote

SpecVote == InitVote /\ [][NextVote]_vars

(* ----------------------------- handleReply ----------------------------- *)

\* The characters of a text: a blank and a letter.
Chars == {" ", "a"}

\* String.prototype.trim(): the text without its leading and trailing blanks.
RECURSIVE trim(_)
trim(text) ==
    IF text = <<>> THEN text
    ELSE IF Head(text) = " " THEN trim(Tail(text))
    ELSE IF text[Len(text)] = " " THEN trim(SubSeq(text, 1, Len(text) - 1))
    ELSE text

\* The texts of at most n characters.
RECURSIVE Texts(_)
Texts(n) ==
    IF n = 0 THEN {<<>>}
    ELSE Texts(n - 1) \cup { Append(t, c) : t \in { x \in Texts(n - 1) : Len(x) = n - 1 },
                                            c \in Chars }

\* Largest number of votes and replies together in a behaviour of SpecPage.
MaxCalls == 2

\* A vote or a reply is still to come; the reply form is worked on until then.
CallsLeft == ncasts < MaxCalls

\* onClick={() => setReplyToId(replyToId === idea.id ? null : idea.id)}
ToggleReply ==
    \E index \in 1..Len(allIdeas) :
        /\ OutlineShown
        /\ CallsLeft
        /\ replyToId' = IF replyToId = <<allIdeas[index].id>>
                         THEN <<>> ELSE <<allIdeas[index].id>>
        /\ UNCHANGED <<elsewhere, store, votes, user, showAuthModal, mainIdea, allIdeas, userVotes, loading,
                       mounted, inflight, runs, casts, clicks, ncasts, routeVars, last,
                       replyBody, replyImages, replying, formData, submitting, location>>

\* onChange={(e) => setReplyBody(e.target.value)}: one character typed or
\* the text deleted.
SetReplyBody ==
    \E text \in Texts(1) :
        /\ OutlineShown
        /\ CallsLeft
        /\ replyToId # <<>>
        /\ text # replyBody
        /\ replyBody' = text
        /\ UNCHANGED <<elsewhere, store, votes, user, showAuthModal, mainIdea, allIdeas, userVotes, loading,
                       mounted, inflight, runs, casts, clicks, ncasts, routeVars, last,
                       replyToId, replyImages, replying, formData, submitting, location>>

\* handleReplyImageSelect with one image file, none being selected yet.
HandleReplyImageSelect ==
    /\ OutlineShown
    /\ CallsLeft
    /\ replyToId # <<>>
    /\ replyImages = 0
    /\ replyImages' = replyImages + 1
    /\ UNCHANGED <<elsewhere, store, votes, user, showAuthModal, mainIdea, allIdeas, userVotes, loading,
                   mounted, inflight, runs, casts, clicks, ncasts, routeVars, last,
                   replyToId, replyBody, replying, formData, submitting, location>>

\* handleReply(parentId) up to its await. The button belongs to the open
\* form and is disabled while replying; a reply is posted from a settled
\* page, and votes and replies together are MaxCalls in all.
HandleReply ==
    \E index \in 1..Len(allIdeas) :
        LET parentId == allIdeas[index].id IN
        /\ OutlineShown
        /\ replyToId = <<parentId>>
        /\ ~replying
        /\ IF user = <<>>
           THEN /\ showAuthModal' = TRUE
                /\ UNCHANGED <<elsewhere, store, votes, user, mainIdea, allIdeas, userVotes, loading,
                               mounted, inflight, runs, casts, clicks, ncasts, routeVars, last,
                               formVars>>
           ELSE IF trim(replyBody) = <<>> /\ replyImages = 0
           THEN UNCHANGED vars
           ELSE /\ CallsLeft
                /\ inflight = <<>>
                /\ replying' = TRUE
                /\ inflight' = Append(inflight, Request("POST_comment", parentId, <<>>, 0))
                /\ last' = Called("reply", parentId)
                /\ ncasts' = ncasts + 1
                /\ UNCHANGED <<elsewhere, store, votes, user, showAuthModal, mainIdea, allIdeas, userVotes,
                               loading, mounted, runs, casts, clicks, routeVars,
                               replyToId, replyBody, replyImages, formData, submitting,
                               location>>

\* CreateReply(parent_id, body, attachments): the new post is the last of the
\* parent's comments.
CreateReply(st, parentId) ==
    LET new == Len(st) + 1
    IN  Append([st EXCEPT ![parentId].comments = Append(@, new)],
               [id |-> new, upvotes |-> 0, downvotes |-> 0, comments |-> <<>>])

\* A page that adds the reply to the list it shows and fetches nothing.
ReplyResolve_patch ==
    \E i \in Pending("POST_comment") :
        /\ store' = CreateReply(store, inflight[i].idea)
        /\ casts' = Append(casts, <<>>)
        /\ clicks' = Append(clicks, <<>>)
        /\ replyBody' = <<>>
        /\ replyImages' = 0
        /\ replyToId' = <<>>
        /\ allIdeas' = Append(allIdeas, store'[Len(store')])
        /\ inflight' = Without(inflight, i)
        /\ replying' = FALSE
        /\ last' = Settled(last, "ok")
        /\ UNCHANGED <<elsewhere, votes, user, showAuthModal, mainIdea, userVotes, loading, mounted, runs,
                       ncasts, routeVars, formData, submitting, location>>

\* handleReply after its await, the store having created the reply: the form
\* is reset, fetchIdea() is called, and finally setReplying(false).
ReplyResolve ==
    \E i \in Pending("POST_comment") :
        /\ store' = CreateReply(store, inflight[i].idea)
        /\ casts' = Append(casts, <<>>)
        /\ clicks' = Append(clicks, <<>>)
        /\ replyBody' = <<>>
        /\ replyImages' = 0
        /\ replyToId' = <<>>
        /\ loading' = TRUE
        /\ inflight' = Append(Without(inflight, i), Request("GET_idea", id, <<>>, 0))
        /\ replying' = FALSE
        /\ last' = Settled(last, "ok")
        /\ UNCHANGED <<elsewhere, votes, user, showAuthModal, mainIdea, allIdeas, userVotes, mounted, runs,
                       ncasts, routeVars, formData, submitting, location>>

\* handleReply after its await, the request having failed with nothing
\* created: toast, and finally setReplying(false).
ReplyReject ==
    \E i \in Pending("POST_comment") :
        /\ inflight' = Without(inflight, i)
        /\ replying' = FALSE
        /\ last' = Settled(last, "failed")
        /\ UNCHANGED <<elsewhere, store, votes, user, showAuthModal, mainIdea, allIdeas, userVotes, loading,
                       mounted, runs, casts, clicks, ncasts, routeVars,
                       replyToId, replyBody, replyImages, formData, submitting, location>>

\* handleVote while a call is left.
PageVote == CallsLeft /\ HandleVote

NextPage ==
    \/ UseEffect
    \/ FetchIdeaRefresh
    \/ FetchIdeaReject
    \/ FetchUserVotesIds
    \/ FetchUserVotesResolve
    \/ FetchUserVotesReject
    \/ PageVote
    \/ VoteResolve
    \/ VoteReject
    \/ ToggleReply
    \/ SetReplyBody
    \/ HandleReplyImageSelect
    \/ HandleReply
    \/ ReplyResolve
    \/ ReplyReject

\* The page of one user, votes and replies.
SpecPage == InitVote /\ [][NextPage]_vars

(* ------------------------ claims on the votes -------------------------- *)

\* The two votes last recorded on post p came from one user with one value.
TwiceInARow(p) ==
    /\ Len(casts[p]) = 2
    /\ casts[p][1].user = casts[p][2].user
    /\ casts[p][1].vote = casts[p][2].vote

\* The last two handleVote calls of the page on post p carried one value.
ClickedTwice(p) ==
    /\ Len(clicks[p]) = 2
    /\ clicks[p][1].vote = clicks[p][2].vote

\* C8 as claimed: for any user, post and value v, casting v twice in a row
\* brings the user's vote on the post back to NoVote and leaves upvotes and
\* downvotes as they were before the first cast.
C8_AsClaimed ==
    /\ \A p \in DOMAIN casts :
           TwiceInARow(p)
           => /\ casts[p][2].after.mine = 0
              /\ casts[p][2].after.upvotes = casts[p][1].before.upvotes
              /\ casts[p][2].after.downvotes = casts[p][1].before.downvotes
    /\ \A p \in DOMAIN clicks :
           ClickedTwice(p) => clicks[p][2].after = 0

\* C8: a user whose vote on a post is NoVote casts v twice in a row, no other
\* vote on that post being recorded in between: the user's vote is NoVote
\* again and upvotes and downvotes are what they were before the first cast.
\* The same holds of the page's own map: two handleVote calls with v on a post
\* without an entry leave it without an entry.
C8_Toggle ==
    /\ \A p \in DOMAIN casts :
           (TwiceInARow(p) /\ casts[p][1].before.mine = 0)
           => /\ casts[p][2].after.mine = 0
              /\ casts[p][2].after.held = 0
              /\ casts[p][2].after.upvotes = casts[p][1].before.upvotes
              /\ casts[p][2].after.downvotes = casts[p][1].before.downvotes
    /\ \A p \in DOMAIN clicks :
           (ClickedTwice(p) /\ clicks[p][1].before = 0)
           => /\ clicks[p][2].after = 0
              /\ p \notin DOMAIN userVotes

\* The page's user voted twice with one value from NoVote, and the store
\* recorded both votes one after the other.
C8_Witness ==
    \E p \in DOMAIN casts :
        /\ TwiceInARow(p)
        /\ casts[p][1].user = Me
        /\ casts[p][1].before.mine = 0
        /\ casts[p][1].after.mine = casts[p][1].vote
        /\ p \in DOMAIN clicks
        /\ ClickedTwice(p)
        /\ clicks[p][1].before = 0
        /\ clicks[p][1].after = clicks[p][1].vote

\* C9: the opposite value replaces the vote. From Upvoted a -1 vote leads to
\* Downvoted with upvotes one less and downvotes one more, from Downvoted a +1
\* vote leads to Upvoted with downvotes one less and upvotes one more; the
\* user does not end in NoVote and holds one vote, in the store and in the
\* page's map.
C9_Replace ==
    /\ \A p \in DOMAIN casts : \A k \in 1..Len(casts[p]) :
           LET e == casts[p][k] IN
           (e.before.mine # 0 /\ e.vote = -e.before.mine)
           => /\ e.after.mine = e.vote
              /\ e.after.held = 1
              /\ e.after.upvotes = e.before.upvotes + e.vote
              /\ e.after.downvotes = e.before.downvotes - e.vote
    /\ \A p \in DOMAIN clicks : \A k \in 1..Len(clicks[p]) :
           LET c == clicks[p][k] IN
           (c.before # 0 /\ c.vote = -c.before) => c.after = c.vote

\* The page's user went from Upvoted to Downvoted, or back, in the store and
\* on the page.
C9_Witness ==
    \E p \in DOMAIN casts :
        /\ Len(casts[p]) = 2
        /\ casts[p][2].user = Me
        /\ casts[p][2].before.mine # 0
        /\ casts[p][2].vote = -casts[p][2].before.mine
        /\ Len(clicks[p]) = 2
        /\ clicks[p][2].before # 0
        /\ clicks[p][2].vote = -clicks[p][2].before

\* The users whose vote on post p is v.
Voters(p, v) == { u \in Users : \E r \in VotesOf(votes, u, p) : r.vote_value = v }

\* C10: after any sequence of votes each user holds at most one vote per post,
\* upvotes and downvotes are not negative, and upvotes (downvotes) is the
\* number of users whose vote on the post is Upvoted (Downvoted).
C10_Counts ==
    \A p \in DOMAIN store :
        /\ \A u \in Users : Cardinality(VotesOf(votes, u, p)) <= 1
        /\ store[p].upvotes >= 0
        /\ store[p].downvotes >= 0
        /\ store[p].upvotes = Cardinality(Voters(p, 1))
        /\ store[p].downvotes = Cardinality(Voters(p, -1))

\* A post on which one user changed sides and two users hold a vote.
C10_Witness ==
    \E p \in DOMAIN store :
        /\ ncasts >= 3
        /\ Cardinality(Voters(p, 1) \cup Voters(p, -1)) >= 2
        /\ Len(casts[p]) = 2
        /\ casts[p][2].before.mine # 0

\* What a vote with value v adds to the counters of a post when the voter's
\* vote on it was old: the six transitions of the vote toggle.
UpvotesBy(old, v) ==
    (IF old = 1 THEN -1 ELSE 0) + (IF v = 1 /\ old # 1 THEN 1 ELSE 0)

DownvotesBy(old, v) ==
    (IF old = -1 THEN -1 ELSE 0) + (IF v = -1 /\ old # -1 THEN 1 ELSE 0)

\* The last two votes recorded on post p came from two users.
TwoVoters(p) == Len(casts[p]) = 2 /\ casts[p][1].user # casts[p][2].user

Succeeds ==
    /\ last # <<>> /\ last[1].outcome = "pending"
    /\ last' # <<>> /\ last'[1].outcome = "ok"

\* This step is a fetchIdea call: the spinner is on and GET /ideas/{id} is the
\* request issued last.
FetchIdeaCalled ==
    /\ loading'
    /\ inflight' # <<>>
    /\ inflight'[Len(inflight')].kind = "GET_idea"
    /\ inflight'[Len(inflight')].idea = id
    /\ Cardinality({ i \in 1..Len(inflight') : inflight'[i].kind = "GET_idea" })
           = Cardinality(Pending("GET_idea")) + 1

\* This step is the end of a fetchIdea call that got its response.
FetchIdeaDone == \E i \in Pending("GET_idea") : inflight' = Without(inflight, i)

\* C12: every successful vote and every successful reply is followed by a
\* fetchIdea call, and the vote or reply response itself changes nothing of
\* allIdeas and mainIdea. allIdeas changes only when a fetchIdea call gets its
\* response, and then to the ranking of the whole tree as the store has it.
C12_Refetch ==
    [][ /\ Succeeds => (FetchIdeaCalled /\ allIdeas' = allIdeas /\ mainIdea' = mainIdea)
        /\ allIdeas' # allIdeas
           => /\ FetchIdeaDone
              /\ allIdeas' = sort(flatten(GetPostWithReplies(store, id)[1]))
              /\ Len(allIdeas') = Len(store) ]_vars

\* A vote was recorded, then a reply was created, and the list fetched after
\* the reply holds the new post.
C12_Witness ==
    /\ last # <<>>
    /\ last[1].kind = "reply"
    /\ last[1].outcome = "ok"
    /\ inflight = <<>>
    /\ ~loading
    /\ casts[1] # <<>>
    /\ Len(allIdeas) = Len(last[1].allIdeas) + 1
    /\ allIdeas[1].upvotes + allIdeas[1].downvotes = 1

\* C13 as claimed: when the request of a vote or of a reply has failed and
\* the page has come to rest, allIdeas, mainIdea and userVotes are what they
\* were when handleVote or handleReply was called.
C13_AsClaimed ==
    (last # <<>> /\ last[1].outcome = "failed" /\ inflight = <<>>)
    => /\ allIdeas = last[1].allIdeas
       /\ mainIdea = last[1].mainIdea
       /\ userVotes = last[1].userVotes

(* ----------------------- claims on the pipeline ------------------------ *)

\* The posts of the thread data: the root and everything reachable from it
\* through comments arrays, collected level by level.
RECURSIVE Reach(_, _)
Reach(data, seen) ==
    LET more == seen \cup { c \in DOMAIN data :
                             \E p \in seen : \E k \in 1..Len(data[p].comments) :
                                 data[p].comments[k] = c }
    IN  IF more = seen THEN seen ELSE Reach(data, more)

TreePosts(data) == Reach(data, {1})

\* Indices of list whose entry is post p.
Places(list, p) == { i \in 1..Len(list) : list[i].id = p }

\* Some reply of the thread has replies of its own.
Nested(data) == \E p \in DOMAIN data : p # 1 /\ Len(data[p].comments) > 0

\* C1: for a reply tree of N posts (root plus descendants at any depth) the
\* list [root, ...flattenComments(root.comments)] built by fetchIdea has
\* exactly N elements and holds every post of the tree exactly once.
C1_Completeness ==
    \A k \in 1..Len(runs) :
        LET r == runs[k] IN
        /\ Len(r.flat) = Cardinality(TreePosts(r.data))
        /\ \A p \in TreePosts(r.data) : Cardinality(Places(r.flat, p)) = 1

\* A run over a thread with a reply to a reply.
C1_Witness ==
    \E k \in 1..Len(runs) :
        /\ Nested(runs[k].data)
        /\ Cardinality(TreePosts(runs[k].data)) >= 3
        /\ Len(runs[k].flat) >= 3

\* C2: after fetchIdea ranked the list, every adjacent pair i, i+1 of
\* allIdeas has upvotes[i] >= upvotes[i+1].
C2_RankOrdering ==
    \A i \in 1..(Len(allIdeas) - 1) : allIdeas[i].upvotes >= allIdeas[i + 1].upvotes

\* A ranked list of three posts or more that the sort had to reorder.
C2_Witness ==
    /\ Len(allIdeas) >= 3
    /\ runs # <<>>
    /\ runs[Len(runs)].flat # allIdeas
    /\ allIdeas[1].upvotes > allIdeas[Len(allIdeas)].upvotes

\* C3: ranking is stable: of two posts with equal upvotes, the one that comes
\* first in the pre-order flattened list comes first in allIdeas.
C3_Stability ==
    \A k \in 1..Len(runs) :
        LET r == runs[k] IN
        \A i, j \in 1..Len(r.flat) :
            (i < j /\ r.flat[i].upvotes = r.flat[j].upvotes)
            => \E a, b \in 1..Len(r.allIdeas) :
                   /\ a < b
                   /\ r.allIdeas[a] = r.flat[i]
                   /\ r.allIdeas[b] = r.flat[j]

\* Two posts tie, and a post between them in pre-order was moved by the sort.
C3_Witness ==
    \E k \in 1..Len(runs) :
        LET r == runs[k] IN
        /\ r.flat # r.allIdeas
        /\ \E i, j \in 1..Len(r.flat) :
               /\ i + 1 < j
               /\ r.flat[i].upvotes = r.flat[j].upvotes
               /\ r.flat[i + 1].upvotes # r.flat[i].upvotes

\* C4: getIndentLevel(0) = 0, and for every index i > 0 the difference
\* getIndentLevel(i) - getIndentLevel(i-1) is 0 or 1.
C4_DepthMonotone ==
    /\ Len(allIdeas) > 0 => getIndentLevel(allIdeas, 0) = 0
    /\ \A i \in 1..(Len(allIdeas) - 1) :
           getIndentLevel(allIdeas, i) - getIndentLevel(allIdeas, i - 1) \in {0, 1}

\* A ranked list in which the upvotes drop by more than one between neighbours.
C4_Witness ==
    \E i \in 1..(Len(allIdeas) - 1) :
        /\ allIdeas[i].upvotes - allIdeas[i + 1].upvotes >= 2
        /\ getIndentLevel(allIdeas, i) = getIndentLevel(allIdeas, i - 1) + 1

\* C5: for every index i > 0, getIndentLevel(i) = getIndentLevel(i-1) iff
\* entry i has the upvotes of entry i-1, and is one greater otherwise.
C5_DepthScore ==
    \A i \in 1..(Len(allIdeas) - 1) :
        /\ (getIndentLevel(allIdeas, i) = getIndentLevel(allIdeas, i - 1))
               <=> (allIdeas[i + 1].upvotes = allIdeas[i].upvotes)
        /\ (allIdeas[i + 1].upvotes # allIdeas[i].upvotes)
               => getIndentLevel(allIdeas, i) = getIndentLevel(allIdeas, i - 1) + 1

\* A ranked list with a tie below the top score and a drop.
C5_Witness ==
    \E i, j \in 1..(Len(allIdeas) - 1) :
        /\ i < j
        /\ allIdeas[i + 1].upvotes # allIdeas[i].upvotes
        /\ allIdeas[j + 1].upvotes = allIdeas[j].upvotes
        /\ getIndentLevel(allIdeas, j) = getIndentLevel(allIdeas, i)

\* The upvote values that occur in list.
UpvoteValues(list) == { list[i].upvotes : i \in 1..Len(list) }

\* The largest indent level of list (list non-empty).
MaxIndent(list) ==
    CHOOSE m \in { getIndentLevel(list, i) : i \in 0..(Len(list) - 1) } :
        \A i \in 0..(Len(list) - 1) : getIndentLevel(list, i) <= m

\* C6: in a non-empty ranked list the largest indent level equals the number
\* of distinct upvote values in the list minus one.
C6_MaxDepth ==
    Len(allIdeas) > 0 => MaxIndent(allIdeas) = Cardinality(UpvoteValues(allIdeas)) - 1

\* A ranked list with fewer distinct values than entries, built from a flat
\* list in which a value comes back after a different one.
C6_Witness ==
    /\ Len(allIdeas) >= 3
    /\ Cardinality(UpvoteValues(allIdeas)) = 2
    /\ MaxIndent(allIdeas) = 1
    /\ runs # <<>>
    /\ LET f == runs[Len(runs)].flat IN
       \E i \in 1..(Len(f) - 2) :
           f[i].upvotes = f[i + 2].upvotes /\ f[i].upvotes # f[i + 1].upvotes

\* C7: the pipeline run twice on the same unchanged snapshot gives the same
\* ordered list and the same indent level for every entry.
C7_Idempotence ==
    (Len(runs) = 2 /\ runs[1].data = runs[2].data)
    => /\ runs[1].allIdeas = runs[2].allIdeas
       /\ runs[1].levels = runs[2].levels

\* Two completed runs over one snapshot whose ranking differs from pre-order.
C7_Witness ==
    /\ Len(runs) = 2
    /\ runs[1].data = runs[2].data
    /\ runs[2].flat # runs[2].allIdeas
    /\ Len(runs[2].allIdeas) >= 3
    /\ allIdeas = runs[2].allIdeas

(* ------------------------- the route changes --------------------------- *)

\* How often the route changes.
MaxVisits == 2

\* The ids a route can name: every post of the table, and one that is no post.
RouteIds == 1..(Len(store) + 1)

\* The route changes to /ideas/b while IdeaDetail stays mounted: useParams
\* gives the new id, the state of the component is kept, and the effect runs
\* again because id is one of its dependencies. Nothing cancels the requests
\* in flight. No user is logged in, so the effect is fetchIdea alone.
Navigate ==
    /\ mounted
    /\ user = <<>>
    /\ visits < MaxVisits
    /\ \E b \in RouteIds \ {id} :
        /\ id' = b
        /\ inflight' = Append(inflight, Request("GET_idea", b, <<>>, 0))
    /\ visits' = visits + 1
    /\ loading' = TRUE
    /\ UNCHANGED <<elsewhere, caught, last, formVars, mounted, store, votes, user, showAuthModal,
                   mainIdea, allIdeas, userVotes, runs, casts, clicks, ncasts>>

\* fetchIdea after its await, the store having answered 404 because the post
\* does not exist: axios throws, catch logs, finally clears the spinner.
FetchIdeaNotFound ==
    \E i \in Pending("GET_idea") :
        /\ GetPostWithReplies(store, inflight[i].idea) = <<>>
        /\ loading' = FALSE
        /\ inflight' = Without(inflight, i)
        /\ UNCHANGED <<elsewhere, routeVars, last, formVars, mounted, store, votes, user, showAuthModal,
                       mainIdea, allIdeas, userVotes, runs, casts, clicks, ncasts>>

\* The first route names any id; nobody is logged in.
InitNav ==
    /\ \E n \in 1..MaxPosts : store \in FreshThreads(n)
    /\ votes = {}
    /\ user = <<>>
    /\ casts = <<>>
    /\ showAuthModal = FALSE
    /\ mainIdea = <<>>
    /\ allIdeas = <<>>
    /\ userVotes = <<>>
    /\ loading = TRUE
    /\ mounted = FALSE
    /\ inflight = <<>>
    /\ runs = <<>>
    /\ clicks = <<>>
    /\ ncasts = 0
    /\ id \in RouteIds
    /\ visits = 0
    /\ caught = <<>>
    /\ last = <<>>
    /\ replyToId = <<>>
    /\ replyBody = <<>>
    /\ replyImages = 0
    /\ replying = FALSE
    /\ formData = [title |-> <<>>, body |-> <<>>]
    /\ submitting = FALSE
    /\ location = "/ideas"
    /\ InitRest

NextNav ==
    \/ UseEffect
    \/ Navigate
    \/ FetchIdeaRefresh
    \/ FetchIdeaNotFound

SpecNav == InitNav /\ [][NextNav]_vars

\* The page is at rest: mounted, every request settled.
AtRest == mounted /\ inflight = <<>>

\* What the page renders: the spinner, 'Idea not found', or the outline.
Rendered ==
    IF loading THEN "spinner" ELSE IF mainIdea = <<>> THEN "Idea not found" ELSE "outline"

\* C14: whenever the fetch of the post the route names has failed because the
\* post does not exist, the page at rest shows 'Idea not found' with mainIdea
\* null and no ranked list, also when another id was fetched before.
C14_AsClaimed ==
    (AtRest /\ id \notin DOMAIN store)
        => (Rendered = "Idea not found" /\ mainIdea = <<>> /\ allIdeas = <<>>)

\* C18: when the id changed while a fetch was in flight, the page at rest shows
\* the mainIdea and allIdeas of the post the route names now.
C18_AsClaimed ==
    (AtRest /\ visits > 0 /\ id \in DOMAIN store)
        => /\ mainIdea = <<GetPostWithReplies(store, id)[1][1]>>
           /\ allIdeas = sort(flatten(GetPostWithReplies(store, id)[1]))

(* --------------------------- malformed trees --------------------------- *)

\* Nested calls of flattenComments the engine's call stack has room for; a
\* well-formed thread of MaxPosts posts nests fewer.
StackFrames == MaxPosts + 2

\* flattenComments run on a call stack with room for `room` more nested calls:
\* [threw, result], threw when a call found no room. The function itself
\* keeps no record of the posts it has visited and no depth counter.
RECURSIVE flattenWithin(_, _, _)
flattenWithin(data, comments, room) ==
    IF room = 0 THEN [threw |-> TRUE, result |-> <<>>]
    ELSE IF comments = <<>> THEN [threw |-> FALSE, result |-> <<>>]
    ELSE LET comment == data[Head(comments)]
             below   == IF Len(comment.comments) > 0
                        THEN flattenWithin(data, comment.comments, room - 1)
                        ELSE [threw |-> FALSE, result |-> <<>>]
         IN  IF below.threw THEN below
             ELSE LET rest == flattenWithin(data, Tail(comments), room)
                  IN  [threw  |-> rest.threw,
                       result |-> <<comment>> \o below.result \o rest.result]

\* The replies of post p, as a set.
Replies(data, p) == { data[p].comments[k] : k \in 1..Len(data[p].comments) }

\* Some post of the thread is reachable from its own replies.
Cyclic(data) == \E p \in TreePosts(data) : p \in Reach(data, Replies(data, p))

\* Every thread of n posts with one more entry in a comments array that
\* leads back to the post itself or to one of its ancestors.
Malformed(n) ==
    { [x[1] EXCEPT ![x[2]].comments = Append(@, x[3])] :
        x \in { y \in Threads(n) \X (1..n) \X (1..n) : y[2] \in Reach(y[1], {y[3]}) } }

\* What the engine throws when the call stack is exhausted.
StackErrors == {"RangeError", "InternalError"}

\* fetchIdea after its await on a response whose flattening finds room.
FetchIdeaFlattened ==
    \E i \in Pending("GET_idea") :
        LET data == GetPostWithReplies(store, inflight[i].idea)[1] IN
        /\ ~flattenWithin(data, data[1].comments, StackFrames).threw
        /\ FetchIdeaThen(i, data, TRUE)
        /\ UNCHANGED elsewhere

\* fetchIdea after its await on a response whose flattening exhausts the
\* stack: the error is thrown inside try, catch logs it, finally clears the
\* spinner; setMainIdea and setAllIdeas are not reached.
FetchIdeaOverflow ==
    \E i \in Pending("GET_idea") :
        LET data == GetPostWithReplies(store, inflight[i].idea)[1] IN
        /\ flattenWithin(data, data[1].comments, StackFrames).threw
        /\ caught' \in { <<e>> : e \in StackErrors }
        /\ loading' = FALSE
        /\ inflight' = Without(inflight, i)
        /\ UNCHANGED <<elsewhere, id, visits, last, formVars, mounted, store, votes, user, showAuthModal,
                       mainIdea, allIdeas, userVotes, runs, casts, clicks, ncasts>>

\* The thread is well-formed or malformed; nobody is logged in.
InitCycle ==
    /\ \E n \in 1..MaxPosts : store \in Threads(n) \cup Malformed(n)
    /\ votes = {}
    /\ user = <<>>
    /\ casts = <<>>
    /\ InitDetail

NextCycle ==
    \/ UseEffect
    \/ FetchIdeaFlattened
    \/ FetchIdeaOverflow

SpecCycle == InitCycle /\ [][NextCycle]_vars

PlaceOf(list, p) == CHOOSE i \in 1..Len(list) : list[i].id = p

\* Some reply of the thread, at any depth, has more upvotes than the root.
Outvoted(data) ==
    \E p \in TreePosts(data) \ {1} : data[p].upvotes > data[1].upvotes

\* C17: whenever some reply, at any nesting depth, has strictly more upvotes
\* than the root, the root is not the first entry of the ranked list and has
\* indent level at least 1, while the first entry has indent level 0.
C17_RankNotStructure ==
    \A k \in 1..Len(runs) :
        LET r == runs[k] IN
        Outvoted(r.data)
        => /\ r.allIdeas[1].id # r.data[1].id
           /\ r.levels[PlaceOf(r.allIdeas, r.data[1].id)] >= 1
           /\ r.levels[1] = 0

\* A reply to a reply outvotes the root, which no direct reply does; the
\* root is ranked below it, one level in or more.
C17_Witness ==
    \E k \in 1..Len(runs) :
        LET r == runs[k] IN
        /\ Outvoted(r.data)
        /\ \A j \in 1..Len(r.data[1].comments) :
               r.data[r.data[1].comments[j]].upvotes <= r.data[1].upvotes
        /\ PlaceOf(r.allIdeas, 1) > 1
        /\ r.levels[PlaceOf(r.allIdeas, 1)] >= 1
        /\ r.allIdeas[1].id # 1

(* ------------------------ claims on pre-order -------------------------- *)

\* Posts of the threads that are flattened.
FlatPosts == 4

\* The thread t with every comments array in the opposite order.
Reversed(t) ==
    [p \in DOMAIN t |->
        [t[p] EXCEPT !.comments = [j \in DOMAIN @ |-> @[Len(@) + 1 - j]]]]

\* Threads of up to FlatPosts posts, the comments arrays by ascending or by
\* descending id.
InitFlat ==
    /\ \E n \in 1..FlatPosts :
           store \in FreshThreads(n) \cup { Reversed(t) : t \in FreshThreads(n) }
    /\ votes = {}
    /\ user = <<>>
    /\ casts = <<>>
    /\ InitDetail

SpecFlat == InitFlat /\ [][Next]_vars

\* The descendants of post p.
Descendants(data, p) == Reach(data, Replies(data, p))

\* C20: the flattened list is in depth-first pre-order: the root is first, the
\* descendants of a post fill the places right after it, and of two siblings
\* the one earlier in the comments array of their parent comes first.
C20_PreOrder ==
    \A k \in 1..Len(runs) :
        LET data == runs[k].data
            flat == runs[k].flat
        IN  /\ flat[1].id = data[1].id
            /\ \A p \in TreePosts(data) :
                   { PlaceOf(flat, d) : d \in Descendants(data, p) }
                       = (PlaceOf(flat, p) + 1)
                             ..(PlaceOf(flat, p) + Cardinality(Descendants(data, p)))
            /\ \A p \in TreePosts(data) :
                   \A i, j \in 1..Len(data[p].comments) :
                       i < j => PlaceOf(flat, data[p].comments[i])
                                    < PlaceOf(flat, data[p].comments[j])

\* A post with a reply of its own is followed by a sibling that comes before
\* it by id: the reply sits between the two.
C20_Witness ==
    \E k \in 1..Len(runs) :
        LET data == runs[k].data
            flat == runs[k].flat
        IN  \E p, q \in TreePosts(data) \ {1} :
                /\ q < p
                /\ Descendants(data, p) # {}
                /\ PlaceOf(flat, q) = PlaceOf(flat, p) + Cardinality(Descendants(data, p)) + 1
                /\ \E j \in 1..(Len(data[1].comments) - 1) :
                       data[1].comments[j] = p /\ data[1].comments[j + 1] = q

(* ------------------------------ SubmitIdea ----------------------------- *)

\* if (formData.body.length < 10)
MinBodyLength == 10

\* Longest title and longest body typed into the form.
MaxTitle == 1

MaxBody == 11

\* onChange of the title input, one more character typed.
SetTitle ==
    /\ location = "/submit"
    /\ Len(formData.title) < MaxTitle
    /\ \E c \in Chars : formData' = [formData EXCEPT !.title = Append(@, c)]
    /\ UNCHANGED <<elsewhere, store, votes, user, showAuthModal, mainIdea, allIdeas, userVotes, loading,
                   mounted, inflight, runs, casts, clicks, ncasts, routeVars, last,
                   replyToId, replyBody, replyImages, replying, submitting, location>>

\* onChange of the body textarea, one more character typed.
SetBody ==
    /\ location = "/submit"
    /\ Len(formData.body) < MaxBody
    /\ \E c \in Chars : formData' = [formData EXCEPT !.body = Append(@, c)]
    /\ UNCHANGED <<elsewhere, store, votes, user, showAuthModal, mainIdea, allIdeas, userVotes, loading,
                   mounted, inflight, runs, casts, clicks, ncasts, routeVars, last,
                   replyToId, replyBody, replyImages, replying, submitting, location>>

\* !(!formData.title.trim() || !formData.body.trim())
Required(fd) == trim(fd.title) # <<>> /\ trim(fd.body) # <<>>

\* The length check left out.
LongEnough_any(fd) == TRUE

\* !(formData.body.length < 10)
LongEnough(fd) == Len(fd.body) >= MinBodyLength

\* handleSubmit up to its await. The Publish button is disabled while
\* submitting. The history keeps the call and which toast, if any, ended it.
HandleSubmit ==
    /\ location = "/submit"
    /\ ~submitting
    /\ CallsLeft
    /\ ncasts' = ncasts + 1
    /\ IF ~Required(formData)
       THEN /\ last' = Settled(Called("submit", 0), "Title and body are required")
            /\ UNCHANGED <<inflight, submitting>>
       ELSE IF ~LongEnough(formData)
       THEN /\ last' = Settled(Called("submit", 0), "Body must be at least 10 characters")
            /\ UNCHANGED <<inflight, submitting>>
       ELSE /\ submitting' = TRUE
            /\ inflight' = Append(inflight, Request("POST_idea", 0, <<>>, 0))
            /\ last' = Called("submit", 0)
    /\ UNCHANGED <<elsewhere, store, votes, user, showAuthModal, mainIdea, allIdeas, userVotes, loading,
                   mounted, runs, casts, clicks, routeVars,
                   replyToId, replyBody, replyImages, replying, formData, location>>

\* POST /ideas: the new idea, a post without votes or replies.
CreateIdea(st) ==
    Append(st, [id |-> Len(st) + 1, upvotes |-> 0, downvotes |-> 0, comments |-> <<>>])

\* handleSubmit after its await, success: toast, navigate(`/ideas/${response.data.id}`),
\* then finally.
SubmitResolve ==
    \E i \in Pending("POST_idea") :
        /\ store' = CreateIdea(store)
        /\ id' = Len(store')
        /\ location' = "/ideas/:id"
        /\ submitting' = FALSE
        /\ inflight' = Without(inflight, i)
        /\ last' = Settled(last, "ok")
        /\ UNCHANGED <<elsewhere, votes, user, showAuthModal, mainIdea, allIdeas, userVotes, loading,
                       mounted, runs, casts, clicks, ncasts, visits, caught,
                       replyToId, replyBody, replyImages, replying, formData>>

\* handleSubmit after its await, failure: toast, then finally.
SubmitReject ==
    \E i \in Pending("POST_idea") :
        /\ submitting' = FALSE
        /\ inflight' = Without(inflight, i)
        /\ last' = Settled(last, "failed")
        /\ UNCHANGED <<elsewhere, store, votes, user, showAuthModal, mainIdea, allIdeas, userVotes, loading,
                       mounted, runs, casts, clicks, ncasts, routeVars,
                       replyToId, replyBody, replyImages, replying, formData, location>>

\* SubmitIdea as a verified user opens it: the form empty, no idea posted yet.
InitSubmit ==
    /\ store = <<>>
    /\ votes = {}
    /\ user = <<[is_verified_email |-> TRUE]>>
    /\ showAuthModal = FALSE
    /\ mainIdea = <<>>
    /\ allIdeas = <<>>
    /\ userVotes = <<>>
    /\ loading = TRUE
    /\ mounted = FALSE
    /\ inflight = <<>>
    /\ runs = <<>>
    /\ casts = <<>>
    /\ clicks = <<>>
    /\ ncasts = 0
    /\ id = 1
    /\ visits = 0
    /\ caught = <<>>
    /\ last = <<>>
    /\ replyToId = <<>>
    /\ replyBody = <<>>
    /\ replyImages = 0
    /\ replying = FALSE
    /\ formData = [title |-> <<>>, body |-> <<>>]
    /\ submitting = FALSE
    /\ location = "/submit"
    /\ InitRest

NextSubmit ==
    \/ SetTitle
    \/ SetBody
    \/ HandleSubmit
    \/ SubmitResolve
    \/ SubmitReject

SpecSubmit == InitSubmit /\ [][NextSubmit]_vars

\* A step that is a call of handleSubmit.
Submits == ncasts' = ncasts + 1

\* The create-idea request leaves in this step.
Posts == inflight' = Append(inflight, Request("POST_idea", 0, <<>>, 0))

\* C19: handleSubmit sends the create-idea request only when the title is
\* non-blank and the body is non-blank and at least 10 characters long; on
\* every other input it sends no request, does not navigate and leaves the
\* form data and the submitting flag unchanged.
C19_Validation ==
    [][ Submits =>
          LET valid == /\ \E k \in 1..Len(formData.title) : formData.title[k] # " "
                       /\ \E k \in 1..Len(formData.body) : formData.body[k] # " "
                       /\ Len(formData.body) >= 10
          IN  /\ Posts <=> valid
              /\ ~valid => /\ inflight' = inflight
                           /\ location' = location
                           /\ formData' = formData
                           /\ submitting' = submitting ]_vars

\* The second call of handleSubmit is posting a body of exactly ten
\* characters of which one is not blank.
C19_Witness ==
    /\ ncasts = 2
    /\ submitting
    /\ Pending("POST_idea") # {}
    /\ last # <<>>
    /\ last[1].outcome = "pending"
    /\ Len(formData.body) = MinBodyLength
    /\ Len(trim(formData.body)) = 1
    /\ trim(formData.title) # <<>>

(* --------------------------- downvotes --------------------------------- *)

\* Downvotes recorded on the thread in all.
MaxDownvotes == 1

RECURSIVE SumDownvotes(_, _)
SumDownvotes(st, n) == IF n = 0 THEN 0 ELSE st[n].downvotes + SumDownvotes(st, n - 1)

\* The store records the downvote of some user on post p: the downvotes of
\* the post grow by one, its upvotes stay. Downvotes arrive after the first
\* run of the pipeline, while the page has no request in flight.
Downvoted ==
    /\ Len(runs) = 1
    /\ inflight = <<>>
    /\ SumDownvotes(store, Len(store)) < MaxDownvotes
    /\ \E p \in DOMAIN store : store' = [store EXCEPT ![p].downvotes = @ + 1]
    /\ UNCHANGED <<elsewhere, votes, user, showAuthModal, mainIdea, allIdeas, userVotes, loading,
                   mounted, inflight, runs, casts, clicks, ncasts, routeVars, last, formVars>>

NextDown ==
    \/ FetchIdeaCall
    \/ ServeIdea
    \/ FetchIdeaResolve
    \/ FetchIdeaReject
    \/ Downvoted

SpecDown == Init /\ [][NextDown]_vars

\* The snapshots a and b are one tree and differ at most in downvotes.
SameButDownvotes(a, b) ==
    /\ DOMAIN a = DOMAIN b
    /\ \A p \in DOMAIN a : [a[p] EXCEPT !.downvotes = 0] = [b[p] EXCEPT !.downvotes = 0]

\* The post ids of list, in order.
Ids(list) == [i \in 1..Len(list) |-> list[i].id]

\* C16: for two snapshots of one tree that differ only in downvotes, the
\* pipeline gives the same sequence of post ids and the same indent level at
\* every index.
C16_DownvotesIgnored ==
    (Len(runs) = 2 /\ SameButDownvotes(runs[1].data, runs[2].data))
    => /\ Ids(runs[1].allIdeas) = Ids(runs[2].allIdeas)
       /\ runs[1].levels = runs[2].levels

\* Between two runs a reply that outvotes the root was downvoted to the
\* root's net score; it is still ranked above the root.
C16_Witness ==
    /\ Len(runs) = 2
    /\ runs[1].data # runs[2].data
    /\ SameButDownvotes(runs[1].data, runs[2].data)
    /\ \E p \in DOMAIN runs[2].data \ {1} :
           LET d == runs[2].data IN
           /\ d[p].upvotes > d[1].upvotes
           /\ d[p].downvotes > runs[1].data[p].downvotes
           /\ d[p].upvotes - d[p].downvotes <= d[1].upvotes - d[1].downvotes
           /\ PlaceOf(runs[2].allIdeas, p) < PlaceOf(runs[2].allIdeas, 1)

(* ------------------------ claims on side effects ----------------------- *)

MaxOverlap == 2

\* fetchIdea up to its await, called while earlier calls may be pending (the
\* effect, or handleVote and handleReply after their request succeeded).
FetchIdeaIssue ==
    /\ Cardinality(Pending("GET_idea")) < MaxOverlap
    /\ loading' = TRUE
    /\ inflight' = Append(inflight, Request("GET_idea", id, <<>>, 0))
    /\ newest' = [pending |-> TRUE, data |-> <<>>]
    /\ UNCHANGED <<exceptNewest, routeVars, last, formVars, mounted, store, votes, user, showAuthModal,
                   mainIdea, allIdeas, userVotes, runs, casts, clicks, ncasts>>

\* The store records an upvote of some user on post p.
Upvoted ==
    /\ \E p \in DOMAIN store :
        /\ store[p].upvotes < MaxUpvotes
        /\ store' = [store EXCEPT ![p].upvotes = @ + 1]
    /\ UNCHANGED <<elsewhere, votes, user, showAuthModal, mainIdea, allIdeas, userVotes, loading,
                   mounted, inflight, runs, casts, clicks, ncasts, routeVars, last, formVars>>

\* fetchIdea after its await, the response of request i having arrived; the
\* requests in flight are in the order issued, the last is the newest.
FetchIdeaArrive ==
    \E i \in Pending("GET_idea") :
        /\ inflight[i].resp # <<>>
        /\ FetchIdeaThen(i, inflight[i].resp[1], FALSE)
        /\ newest' = IF i = Len(inflight) /\ newest.pending
                     THEN [pending |-> FALSE, data |-> inflight[i].resp]
                     ELSE newest
        /\ UNCHANGED exceptNewest

NextOverlap ==
    \/ FetchIdeaIssue
    \/ ServeIdea
    \/ Upvoted
    \/ FetchIdeaArrive
    \/ FetchIdeaReject

SpecOverlap == Init /\ [][NextOverlap]_vars

\* C22: once every fetchIdea request has completed, allIdeas is the ranking
\* of the snapshot returned to the fetchIdea issued last; the response of an
\* earlier request does not overwrite it.
C22_AsClaimed ==
    (inflight = <<>> /\ newest.data # <<>>)
        => allIdeas = sort(flatten(newest.data[1]))

\* C28: loading is true whenever a fetchIdea request is in flight, so 'Idea
\* not found' is never shown while a fetch of the idea is pending.
C28_AsClaimed ==
    Pending("GET_idea") # {} => (loading /\ Rendered # "Idea not found")

(* ------------------- userVotes against the store ----------------------- *)

\* The votes of the logged-in user as the store records them, { ideaId: 1 or -1 }.
Recorded == votesMap(myVotes(votes, Me, [p \in DOMAIN store |-> p]))

\* C23: whenever the page of a logged-in verified user is at rest, userVotes
\* is the map of the votes the store records for that user: +1 or -1 where
\* it records an upvote or a downvote, no entry where it records none.
C23_AsClaimed ==
    (/\ AtRest
     /\ user = <<[is_verified_email |-> TRUE]>>
     /\ last # <<>>
     /\ last[1].kind = "vote"
     /\ last[1].outcome = "ok")
        => userVotes = Recorded

(* --------------------------------- App --------------------------------- *)

\* Tokens the server hands out.
MaxTokens == 3

\* fetchUser calls in flight at a time.
MaxMe == 2

\* What App leaves alone: the pages.
pages == <<store, votes, mainIdea, allIdeas, userVotes, loading,
           runs, casts, clicks, ncasts, routeVars, last, formVars, exceptApp>>

\* The users the server knows.
Accounts == { <<[is_verified_email |-> v]>> : v \in BOOLEAN }

\* fetchUser up to its await: axios.get(`${API}/me`, ...) with the token.
FetchUserCall(requests, t) == Append(requests, Request("GET_me", t[1], <<>>, 0))

\* Unread-count requests in flight at a time, and the largest count the
\* server answers.
MaxPolls == 2

MaxUnread == 1

\* setInterval(fetchUnreadCount, 30000) in a render with token t: a new
\* interval, its callback closed over t.
setInterval(ts, t) ==
    [id |-> CHOOSE n \in 1..(Cardinality(ts) + 1) : \A x \in ts : x.id # n, token |-> t]

clearInterval_none(ts, interval) == ts

\* clearInterval(interval).
clearInterval(ts, interval) == { x \in ts : x.id # interval }

\* fetchUnreadCount up to its await, in a render with token t:
\* axios.get(`${API}/notifications/unread-count`, ...).
fetchUnreadCount(requests, t) == Append(requests, t[1])

\* The effect of NotificationCenter after a render in which user or token is
\* another one, NotificationCenter being rendered by Navbar while a user is
\* set: the cleanup the last effect returned, if any, then
\* if (user && token) { fetchUnreadCount(); setInterval(...) } with the
\* cleanup of the new interval. A NotificationCenter that appears starts
\* with useState(0).
NotificationEffect ==
    LET cleaned == IF cleanup # <<>> THEN clearInterval(timers, cleanup[1]) ELSE timers
        interval == setInterval(cleaned, token')
    IN  /\ unreadCount' = IF user = <<>> \/ user' = <<>> THEN 0 ELSE unreadCount
        /\ IF user' # <<>> /\ token' # <<>>
           THEN /\ Len(polling) < MaxPolls
                /\ polling' = fetchUnreadCount(polling, token')
                /\ polled' = <<[by |-> "effect", user |-> user', token |-> token']>>
                /\ timers' = cleaned \cup {interval}
                /\ cleanup' = <<interval.id>>
           ELSE /\ timers' = cleaned
                /\ cleanup' = <<>>
                /\ UNCHANGED <<polling, polled>>

\* useEffect(() => { if (token) fetchUser(); }, [token]) on the first render,
\* the token being the one found in localStorage. No user yet, no bell.
AppEffect ==
    /\ ~mounted
    /\ mounted' = TRUE
    /\ inflight' = IF token # <<>> THEN FetchUserCall(inflight, token) ELSE inflight
    /\ UNCHANGED <<pages, user, token, bellVars, showAuthModal>>

\* The Login button of Navbar, there while no user is set: setShowAuthModal(true).
OpenAuthModal ==
    /\ mounted
    /\ user = <<>>
    /\ ~showAuthModal
    /\ showAuthModal' = TRUE
    /\ UNCHANGED <<pages, user, token, bellVars, mounted, inflight>>

\* The close button of AuthModal: onClose.
CloseAuthModal ==
    /\ showAuthModal
    /\ showAuthModal' = FALSE
    /\ UNCHANGED <<pages, user, token, bellVars, mounted, inflight>>

\* AuthModal.handleSubmit up to its await: axios.post(`${API}${endpoint}`, formData),
\* one request at a time.
SubmitLogin ==
    /\ showAuthModal
    /\ Pending("POST_login") = {}
    /\ inflight' = Append(inflight, Request("POST_login", 0, <<>>, 0))
    /\ UNCHANGED <<pages, user, token, bellVars, mounted, showAuthModal>>

\* AuthModal.handleSubmit after its await, success: login(newToken, userData),
\* then onClose. The effect of App runs again when the token is another one,
\* the effect of NotificationCenter in any case.
Login ==
    \E i \in Pending("POST_login") :
        /\ Cardinality(Pending("GET_me")) < MaxMe
        /\ \E newToken \in 1..MaxTokens, userData \in Accounts :
            /\ token' = <<newToken>>
            /\ user' = userData
            /\ inflight' = IF token' # token
                           THEN FetchUserCall(Without(inflight, i), token')
                           ELSE Without(inflight, i)
        /\ NotificationEffect
        /\ showAuthModal' = FALSE
        /\ UNCHANGED <<pages, mounted>>

\* AuthModal.handleSubmit after its await, failure: toast.
LoginReject ==
    \E i \in Pending("POST_login") :
        /\ inflight' = Without(inflight, i)
        /\ UNCHANGED <<pages, user, token, bellVars, mounted, showAuthModal>>

\* logout(), called from the user menu, which is there while a user is set.
\* The effect of App runs again and finds no token; NotificationCenter goes.
Logout ==
    /\ mounted
    /\ user # <<>>
    /\ token' = <<>>
    /\ user' = <<>>
    /\ NotificationEffect
    /\ UNCHANGED <<pages, mounted, inflight, showAuthModal>>

\* fetchUser after its await, success: setUser(response.data), another
\* object than the user before.
FetchUserResolve ==
    \E i \in Pending("GET_me") :
        /\ \E data \in Accounts : user' = data
        /\ inflight' = Without(inflight, i)
        /\ token' = token
        /\ NotificationEffect
        /\ UNCHANGED <<pages, mounted, showAuthModal>>

\* fetchUser after its await, failure: catch calls logout().
FetchUserReject ==
    \E i \in Pending("GET_me") :
        /\ token' = <<>>
        /\ user' = <<>>
        /\ inflight' = Without(inflight, i)
        /\ NotificationEffect
        /\ UNCHANGED <<pages, mounted, showAuthModal>>

aroundBell == <<pages, user, token, mounted, inflight, showAuthModal>>

\* The interval fires: fetchUnreadCount of the render that set it.
Tick ==
    \E x \in timers :
        /\ Len(polling) < MaxPolls
        /\ polling' = fetchUnreadCount(polling, x.token)
        /\ polled' = <<[by |-> "timer", user |-> user, token |-> token]>>
        /\ UNCHANGED <<timers, cleanup, unreadCount, aroundBell>>

\* fetchUnreadCount after its await, success: setUnreadCount(response.data.count),
\* which is nothing once NotificationCenter is gone.
FetchUnreadCountResolve ==
    \E i \in 1..Len(polling), count \in 0..MaxUnread :
        /\ polling' = Without(polling, i)
        /\ unreadCount' = IF user # <<>> THEN count ELSE unreadCount
        /\ UNCHANGED <<timers, cleanup, polled, aroundBell>>

\* fetchUnreadCount after its await, failure: console.error.
FetchUnreadCountReject ==
    \E i \in 1..Len(polling) :
        /\ polling' = Without(polling, i)
        /\ UNCHANGED <<timers, cleanup, polled, unreadCount, aroundBell>>

\* App starts with the token of localStorage, if any, and no user.
InitApp ==
    /\ InitIdle
    /\ NoFetchYet
    /\ NoImages
    /\ NoCategories
    /\ NoCard
    /\ NoPasswords
    /\ token \in {<<>>} \cup { <<t>> : t \in 1..MaxTokens }
    /\ InitBell

NextApp ==
    \/ AppEffect
    \/ OpenAuthModal
    \/ CloseAuthModal
    \/ SubmitLogin
    \/ Login
    \/ LoginReject
    \/ Logout
    \/ FetchUserResolve
    \/ FetchUserReject
    \/ Tick
    \/ FetchUnreadCountResolve
    \/ FetchUnreadCountReject

SpecApp == InitApp /\ [][NextApp]_vars

\* C24: in every state of App, under any interleaving of login, logout and
\* the completion of a fetchUser request, token = null implies user = null.
C24_AsClaimed == token = <<>> => user = <<>>

MaxFiles == 4

MaxBatch == 2

\* Everything but the picker.
aroundPicker == <<store, votes, user, showAuthModal, mainIdea, allIdeas, userVotes, loading,
                  mounted, inflight, runs, casts, clicks, ncasts, routeVars, last, formVars,
                  exceptPicker>>

\* The files of one change of the file input: numbered on from nfiles, each
\* an image or not.
Batches ==
    UNION { [1..k -> BOOLEAN] : k \in 1..MaxBatch }

\* const validImages = files.filter(file => file.type.startsWith('image/'));
validImages(files) ==
    LET F[k \in 0..Len(files)] ==
            IF k = 0 THEN <<>>
            ELSE IF files[k] THEN Append(F[k - 1], nfiles + k) ELSE F[k - 1]
    IN  F[Len(files)]

\* handleImageSelect: the valid images are appended to the list and a
\* FileReader is started for each of them.
HandleImageSelect ==
    \E files \in Batches :
        /\ nfiles + Len(files) <= MaxFiles
        /\ nfiles' = nfiles + Len(files)
        /\ selectedImages' = selectedImages \o validImages(files)
        /\ readers' = readers \cup { validImages(files)[k] : k \in 1..Len(validImages(files)) }
        /\ UNCHANGED <<imagePreviews, aroundPicker>>

\* reader.onloadend of file f: its preview is appended to the previews.
ReaderLoadEnd ==
    \E f \in readers :
        /\ imagePreviews' = Append(imagePreviews, f)
        /\ readers' = readers \ {f}
        /\ UNCHANGED <<selectedImages, nfiles, aroundPicker>>

\* prev.filter((_, i) => i !== index), index from 0.
filterOut(prev, index) ==
    LET F[k \in 0..Len(prev)] ==
            IF k = 0 THEN <<>>
            ELSE IF k - 1 # index THEN Append(F[k - 1], prev[k]) ELSE F[k - 1]
    IN  F[Len(prev)]

\* removeImage(index), from the button on the preview at index.
RemoveImage ==
    \E index \in 0..(Len(imagePreviews) - 1) :
        /\ selectedImages' = filterOut(selectedImages, index)
        /\ imagePreviews' = filterOut(imagePreviews, index)
        /\ UNCHANGED <<readers, nfiles, aroundPicker>>

InitPicker ==
    /\ InitIdle
    /\ InitRest

NextPicker ==
    \/ HandleImageSelect
    \/ ReaderLoadEnd
    \/ RemoveImage

SpecPicker == InitPicker /\ [][NextPicker]_vars

\* C25: once every FileReader callback has run, the previews and the images
\* have the same length and the preview at each index is the preview of the
\* image at that index.
C25_AsClaimed ==
    readers = {} => imagePreviews = selectedImages

(* --------------------------- Home: categories -------------------------- *)

\* Categories the server lists.
NumCategories == 4

\* The categories as fetched, in the order of the response.
categories == [k \in 1..NumCategories |-> [id |-> k, name |-> <<"category", k>>]]

\* Everything but the category filter of Home.
aroundHome == <<store, votes, user, showAuthModal, mainIdea, allIdeas, userVotes, loading,
                mounted, inflight, runs, casts, clicks, ncasts, routeVars, last, formVars,
                exceptHome>>

\* prev.includes(categoryId)
includes(prev, categoryId) == \E k \in 1..Len(prev) : prev[k] = categoryId

\* prev.filter(id => id !== categoryId)
filterId(prev, categoryId) ==
    LET F[k \in 0..Len(prev)] ==
            IF k = 0 THEN <<>>
            ELSE IF prev[k] # categoryId THEN Append(F[k - 1], prev[k]) ELSE F[k - 1]
    IN  F[Len(prev)]

\* toggleCategory(categoryId), from the category's checkbox.
toggleCategory ==
    \E categoryId \in 1..NumCategories :
        /\ selectedCategories' = IF includes(selectedCategories, categoryId)
                                 THEN filterId(selectedCategories, categoryId)
                                 ELSE Append(selectedCategories, categoryId)
        /\ cleared' = <<>>
        /\ UNCHANGED aroundHome

\* categories.filter(cat => selectedCategories.includes(cat.id)).map(cat => cat.name)
getSelectedCategoryNames ==
    LET F[k \in 0..NumCategories] ==
            IF k = 0 THEN <<>>
            ELSE IF includes(selectedCategories, categories[k].id)
                 THEN Append(F[k - 1], categories[k].name) ELSE F[k - 1]
    IN  F[NumCategories]

\* The remove button of the badge at index (from 0) of the names:
\* clearCategory(selectedCategories[index]).
ClearBadge ==
    \E index \in 0..(Len(getSelectedCategoryNames) - 1) :
        /\ selectedCategories' = filterId(selectedCategories, selectedCategories[index + 1])
        /\ cleared' = <<[name   |-> getSelectedCategoryNames[index + 1],
                         before |-> selectedCategories,
                         after  |-> selectedCategories']>>
        /\ UNCHANGED aroundHome

InitHome ==
    /\ InitIdle
    /\ InitRest

NextHome ==
    \/ toggleCategory
    \/ ClearBadge

SpecHome == InitHome /\ [][NextHome]_vars

\* The ids in the list sel.
IdsIn(sel) == { sel[k] : k \in 1..Len(sel) }

\* The category named name.
Named(name) == CHOOSE c \in 1..NumCategories : categories[c].name = name

\* C26: the remove button of the badge showing category name N removes
\* exactly the category named N from selectedCategories and leaves every
\* other selected category selected.
C26_AsClaimed ==
    cleared # <<>>
        => IdsIn(cleared[1].after) = IdsIn(cleared[1].before) \ {Named(cleared[1].name)}

(* ------------------------------- IdeaCard ------------------------------ *)

\* IdeaCard.handleVote(e, voteValue) up to its await, from one of the two
\* vote buttons, which are disabled while voting. The card shows post 1, and
\* MaxCasts votes are cast in all.
CardHandleVote ==
    \E voteValue \in {1, -1} :
        /\ ~voting
        /\ IF user = <<>>
           THEN /\ showAuthModal' = TRUE
                /\ UNCHANGED <<elsewhere, routeVars, last, formVars, mounted, store, votes, user,
                               mainIdea, allIdeas, userVotes, loading, inflight, runs, casts,
                               clicks, ncasts>>
           ELSE IF ~user[1].is_verified_email
           THEN UNCHANGED vars
           ELSE /\ ncasts < MaxCasts
                /\ voting' = TRUE
                /\ inflight' = Append(inflight, Request("POST_vote", 1, <<>>, voteValue))
                /\ ncasts' = ncasts + 1
                /\ last' = Called("vote", 1)
                /\ UNCHANGED <<exceptCard, cardVotes, routeVars, formVars, mounted, store, votes,
                               user, showAuthModal, mainIdea, allIdeas, userVotes, loading,
                               runs, casts, clicks>>

\* IdeaCard.handleVote after its await, the store having recorded the vote:
\* setUpvotes(response.data.upvotes); setDownvotes(response.data.downvotes);
\* finally setVoting(false).
CardVoteResolve ==
    \E i \in Pending("POST_vote") :
        /\ RecordVote(Me, inflight[i].idea, inflight[i].vote)
        /\ cardVotes' = [upvotes   |-> store'[inflight[i].idea].upvotes,
                         downvotes |-> store'[inflight[i].idea].downvotes]
        /\ voting' = FALSE
        /\ inflight' = Without(inflight, i)
        /\ last' = Settled(last, "ok")
        /\ UNCHANGED <<exceptCard, routeVars, formVars, mounted, user, showAuthModal, mainIdea,
                       allIdeas, userVotes, loading, runs, clicks, ncasts>>

\* The catch without the finally.
CardVoteReject_stuck ==
    \E i \in Pending("POST_vote") :
        /\ inflight' = Without(inflight, i)
        /\ last' = Settled(last, "failed")
        /\ UNCHANGED <<elsewhere, routeVars, formVars, mounted, store, votes, user,
                       showAuthModal, mainIdea, allIdeas, userVotes, loading, runs, casts,
                       clicks, ncasts>>

\* IdeaCard.handleVote after its await, the request having failed: toast;
\* finally setVoting(false).
CardVoteReject ==
    \E i \in Pending("POST_vote") :
        /\ voting' = FALSE
        /\ inflight' = Without(inflight, i)
        /\ last' = Settled(last, "failed")
        /\ UNCHANGED <<exceptCard, cardVotes, routeVars, formVars, mounted, store, votes, user,
                       showAuthModal, mainIdea, allIdeas, userVotes, loading, runs, casts,
                       clicks, ncasts>>

\* A card of the feed on post 1 of a fresh thread, for any visitor.
InitCard ==
    /\ store \in FreshThreads(VotePosts)
    /\ votes = {}
    /\ user \in {<<>>, <<[is_verified_email |-> FALSE]>>, <<[is_verified_email |-> TRUE]>>}
    /\ casts = [p \in 1..VotePosts |-> <<>>]
    /\ InitPage
    /\ InitRest

NextCard ==
    \/ CardHandleVote
    \/ CardVoteResolve
    \/ CardVoteReject
    \/ OtherVote

SpecCard == InitCard /\ [][NextCard]_vars

\* C27: in IdeaCard voting is true exactly while a vote request of the card
\* is in flight; there is never a second request, and voting is false again
\* once the request has completed, with success or with failure.
C27_VotingFlag ==
    /\ voting <=> Pending("POST_vote") # {}
    /\ Cardinality(Pending("POST_vote")) <= 1

\* A vote of the card has failed after an earlier one was recorded; the
\* buttons are enabled again.
C27_Witness ==
    /\ ~voting
    /\ last # <<>>
    /\ last[1].outcome = "failed"
    /\ ncasts >= 2
    /\ cardVotes.upvotes + cardVotes.downvotes >= 1
    /\ inflight = <<>>

(* ------------------------------- Settings ------------------------------ *)

\* if (newPassword.length < 6); minLength={6}
MinPasswordLength == 6

\* Longest password typed.
MaxPassword == 6

\* Characters of a password.
PasswordChars == {"a", "b"}

\* Everything but the password form of Settings.
aroundSettings == <<store, votes, user, showAuthModal, mainIdea, allIdeas, userVotes, loading,
                    mounted, inflight, runs, casts, clicks, ncasts, routeVars, formVars,
                    exceptSettings>>

\* onChange of the New Password input, one more character typed.
SetNewPassword ==
    /\ Len(newPassword) < MaxPassword
    /\ \E c \in PasswordChars : newPassword' = Append(newPassword, c)
    /\ UNCHANGED <<currentPassword, confirmPassword, changingPassword, last,
                   aroundSettings>>

\* onChange of the Confirm Password input, one more character typed.
SetConfirmPassword ==
    /\ Len(confirmPassword) < MaxPassword
    /\ \E c \in PasswordChars : confirmPassword' = Append(confirmPassword, c)
    /\ UNCHANGED <<currentPassword, newPassword, changingPassword, last,
                   aroundSettings>>

\* The form can be submitted: the button is not disabled and both inputs
\* meet their minLength.
CanSubmitPassword ==
    /\ ~changingPassword
    /\ newPassword # <<>>
    /\ confirmPassword # <<>>
    /\ Len(newPassword) >= MinPasswordLength
    /\ Len(confirmPassword) >= MinPasswordLength

\* handlePasswordChange up to its await. The form has the two inputs above and
\* none for the current password. The history keeps the call and the toast
\* that ended it, if any; a call that ends in a toast changes nothing else.
HandlePasswordChange ==
    /\ CanSubmitPassword
    /\ IF currentPassword = <<>>
       THEN /\ last' = Settled(Called("password", 0), "Please enter your current password")
            /\ UNCHANGED <<inflight, changingPassword>>
       ELSE IF Len(newPassword) < MinPasswordLength
       THEN /\ last' = Settled(Called("password", 0), "New password must be at least 6 characters")
            /\ UNCHANGED <<inflight, changingPassword>>
       ELSE IF newPassword # confirmPassword
       THEN /\ last' = Settled(Called("password", 0), "Passwords do not match")
            /\ UNCHANGED <<inflight, changingPassword>>
       ELSE /\ changingPassword' = TRUE
            /\ inflight' = Append(inflight, Request("POST_change_password", 0, <<>>, 0))
            /\ last' = Called("password", 0)
    /\ UNCHANGED <<currentPassword, newPassword, confirmPassword,
                   store, votes, user, showAuthModal, mainIdea, allIdeas, userVotes, loading,
                   mounted, runs, casts, clicks, ncasts, routeVars, formVars, exceptSettings>>

\* Settings as a logged-in user sees it, the password form empty.
InitSettings ==
    /\ store = <<>>
    /\ votes = {}
    /\ user \in Accounts
    /\ casts = <<>>
    /\ InitPage
    /\ InitRest

NextSettings ==
    \/ SetNewPassword
    \/ SetConfirmPassword
    \/ HandlePasswordChange

\* The user goes on typing and submitting as long as the form lets them.
SpecSettings ==
    /\ InitSettings
    /\ [][NextSettings]_vars
    /\ WF_vars(SetNewPassword)
    /\ WF_vars(SetConfirmPassword)
    /\ WF_vars(HandlePasswordChange)

\* C29: a logged-in user can change their password through the form: typing
\* into its fields and submitting comes to send the change-password request.
C29_AsClaimed == <>(Pending("POST_change_password") # {})

====
